---------------------------- MODULE Spec2Model ----------------------------
(***************************************************************************)
(* Order management of the restaurant API: the axum handlers of            *)
(* src/src/controller.rs over the Postgres queries of src/src/service.rs   *)
(* and the Redis idempotency cache.  Every handler is cut at its awaits:   *)
(* one action per awaited store or cache call.                             *)
(*                                                                         *)
(* Option<T> is modelled as a set: {} is None, {x} is Some(x).             *)
(* Time is counted in ticks, TicksPerSec ticks to the second, so that the  *)
(* ts_seconds serialisation of ready_time really drops something.          *)
(***************************************************************************)
EXTENDS Integers, Sequences, FiniteSets, TLC

\* ------------------------------------------------------------- bounds
\* Concurrent request handlers.
NumProcs == 2
\* Ids the sequence of the orders relation may hand out.
MaxOrders == 2
\* The clock: at most MaxBig long steps, and MaxFine single ticks after each.
MaxFine == 1
MaxBig == 1
\* Ids the sequence may hand out while the paging client walks.
MaxWalkOrders == 3
\* The largest page the paging client asks for.
MaxLimit == 2
\* Ticks to the second.
TicksPerSec == 2

\* --------------------------------------------------- program constants
\* set_ex(&cache_key, &json, 600): the cache entry's time to live, seconds.
CacheTtlSecs == 600
\* TimeDelta::minutes(15)
ReadyMinutes == 15

Procs == 1..NumProcs
\* Idempotency-Key header values, as sequences of characters.  "NUL" stands
\* for a byte outside visible ASCII, on which HeaderValue::to_str fails.
VisibleAscii == {"a", "b", "_", "0", "1", "2", "3", "4", "5", "6", "7", "8", "9", "-"}
TokenA == <<"a">>
TokenB == <<"0", "_", "a">>
BadBytes == <<"NUL">>

VARIABLES
  rows,       \* the orders relation, in insertion order
  seq,        \* last value handed out by the id column's sequence
  cache,      \* Redis: key -> [value, expires]
  now,        \* the clock, in ticks
  pc,         \* per handler: the await it is parked at, or "idle"
  req,        \* per handler: the request being served
  order,      \* per handler: the local `order` of create_order
  faults,     \* per handler: the dependency failures its request has met
  last,       \* the response sent last, with the request it answers
  walk        \* the paging client of tests.rs

vars == <<rows, seq, cache, now, pc, req, order, faults, last, walk>>

\* ------------------------------------------------------------ helpers
Ttl == CacheTtlSecs * TicksPerSec
ReadyDelta == ReadyMinutes * 60 * TicksPerSec
BigStep == Ttl - 1
\* The clock when the service starts: not on a whole second.
StartTick == TicksPerSec - 1

DigitChar == <<"0", "1", "2", "3", "4", "5", "6", "7", "8", "9">>

RECURSIVE Dec(_)
\* format!("{}", n) of an i32: the decimal digits, "-" first when negative.
Dec(n) ==
  IF n < 0 THEN <<"-">> \o Dec(0 - n)
  ELSE IF n < 10 THEN <<DigitChar[n + 1]>>
  ELSE Dec(n \div 10) \o <<DigitChar[(n % 10) + 1]>>

\* HeaderValue::to_str: Ok only when every byte is visible ASCII.
to_str_ok(h) == \A i \in 1..Len(h) : h[i] \in VisibleAscii

\* format!("{}_{}_{}", table_id, dish_id, key)
cache_key(table_id, dish_id, key) ==
  Dec(table_id) \o <<"_">> \o Dec(dish_id) \o <<"_">> \o key

\* As key_of, with the arguments of format! in the order dish_id, table_id.
key_of_swapped(r) == cache_key(r.dish_id, r.table_id, CHOOSE h \in r.header : TRUE)

\* The key of a create request that carries a token.
key_of(r) == cache_key(r.table_id, r.dish_id, CHOOSE h \in r.header : TRUE)

\* controller::Order serialised by serde_json, ready_time with ts_seconds.
to_json(o) ==
  [id |-> o.id, dish_id |-> o.dish_id, ready_time |-> o.ready_time \div TicksPerSec]

\* As redis_get, but into an integer: the stored JSON never parses, so Err.
redis_get_as_int(c, t, k, fault) == {}

\* As redis_get, but a failed lookup still yields the entry's value.
redis_get_ignoring_error(c, t, k, fault) ==
  IF k \in DOMAIN c /\ t < c[k].expires THEN {c[k].value} ELSE {}

\* cache.get(&cache_key) into a String: Ok(value) only for a live entry.
redis_get(c, t, k, fault) ==
  IF ~fault /\ k \in DOMAIN c /\ t < c[k].expires THEN {c[k].value} ELSE {}

\* As redis_set_ex, but an entry there keeps its time to live (SET KEEPTTL).
redis_set_keepttl(c, t, k, v) ==
  [x \in (DOMAIN c) \cup {k} |->
     IF x = k
       THEN [value |-> v,
             expires |-> IF k \in DOMAIN c THEN c[k].expires
                         ELSE t + CacheTtlSecs * TicksPerSec]
       ELSE c[x]]

\* As redis_set_ex, but the 600 is taken as milliseconds (PSETEX).
redis_psetex(c, t, k, v) ==
  [x \in (DOMAIN c) \cup {k} |->
     IF x = k THEN [value |-> v, expires |-> t + (CacheTtlSecs * TicksPerSec) \div 1000]
     ELSE c[x]]

\* As redis_set_ex, but a live entry is kept (SET NX).
redis_set_nx(c, t, k, v) ==
  IF k \in DOMAIN c /\ t < c[k].expires THEN c
  ELSE [x \in (DOMAIN c) \cup {k} |->
          IF x = k THEN [value |-> v, expires |-> t + CacheTtlSecs * TicksPerSec] ELSE c[x]]

\* cache.set_ex(&cache_key, &json, 600)
redis_set_ex(c, t, k, v) ==
  [x \in (DOMAIN c) \cup {k} |-> IF x = k THEN [value |-> v, expires |-> t + Ttl] ELSE c[x]]

\* DEFAULT of the id column: the next value of its sequence.
nextval(s) == s + 1

\* DEFAULT of the deleted column.
DefaultDeleted == FALSE

\* As insert_row, but the id column is given the dish_id ($2) in place of
\* DEFAULT.
insert_row_dish_as_id(s, table_id, dish_id, ready_time) ==
  [id |-> dish_id, table_id |-> table_id, dish_id |-> dish_id,
   ready_time |-> ready_time, deleted |-> DefaultDeleted]

\* As insert_row, but the id is bound to a parameter of the caller ($1)
\* in place of DEFAULT.
insert_row_caller_id(s, table_id, dish_id, ready_time) ==
  [id |-> table_id, table_id |-> table_id, dish_id |-> dish_id,
   ready_time |-> ready_time, deleted |-> DefaultDeleted]

\* INSERT INTO orders (id, table_id, dish_id, ready_time)
\*   VALUES (DEFAULT, $1, $2, $3) RETURNING id
insert_row(s, table_id, dish_id, ready_time) ==
  [id |-> nextval(s), table_id |-> table_id, dish_id |-> dish_id,
   ready_time |-> ready_time, deleted |-> DefaultDeleted]

NoReq ==
  [op |-> "none", table_id |-> 0, dish_id |-> 0, header |-> {},
   order_id |-> 0, from_id |-> {}, limit |-> {}]
NoLast ==
  [proc |-> 0, req |-> NoReq, status |-> "none", body |-> << >>,
   lookup |-> "none", faults |-> {}, entry_exp |-> {}, overwrote |-> {}]
NoWalk == [state |-> "idle", table_id |-> 0, limit |-> 0, from_id |-> 0,
           seen |-> << >>, start |-> << >>]

Init ==
  /\ rows = << >>
  /\ seq = 0
  /\ cache = << >>
  /\ now = StartTick
  /\ pc = [p \in Procs |-> "idle"]
  /\ req = [p \in Procs |-> NoReq]
  /\ order = [p \in Procs |-> {}]
  /\ faults = [p \in Procs |-> {}]
  /\ last = NoLast
  /\ walk = NoWalk

\* The handler returns: the response is sent, its locals die, it is free again.
\* r is the request answered, fs the failures it met, lk how its cache lookup
\* ended, ex the expiry of the cache entry it hit or wrote, ow the live cache
\* value its write replaced.
Respond(p, r, status, body, fs, lk, ex, ow) ==
  /\ pc' = [pc EXCEPT ![p] = "idle"]
  /\ req' = [req EXCEPT ![p] = NoReq]
  /\ order' = [order EXCEPT ![p] = {}]
  /\ faults' = [faults EXCEPT ![p] = {}]
  /\ last' = [proc |-> p, req |-> r, status |-> status, body |-> body,
              lookup |-> lk, faults |-> fs, entry_exp |-> ex, overwrote |-> ow]

Return(p, r, status, body, fs, lk, ex) == Respond(p, r, status, body, fs, lk, ex, {})

\* The handler parks at an await of create_order.
Await(p, r, at, o, fs) ==
  /\ pc' = [pc EXCEPT ![p] = at]
  /\ req' = [req EXCEPT ![p] = r]
  /\ order' = [order EXCEPT ![p] = o]
  /\ faults' = [faults EXCEPT ![p] = fs]
  /\ UNCHANGED last

Met(f) == IF f = "ok" THEN {} ELSE {f}

\* The sequence has handed out fewer than n ids, counting one per insert pending.
Room(n) == seq + Cardinality({q \in Procs : pc[q] = "add_order"}) < n

\* As add_order, but a query that fails after the sequence moved has left
\* its row behind.
add_order_row_left(p, r, f, fs) ==
  IF f = "db_conn"
    THEN /\ Return(p, r, "DatabaseConnection", << >>, fs, "none", {})
         /\ UNCHANGED <<rows, seq>>
  ELSE IF f = "db_query"
    THEN /\ Return(p, r, "DatabaseQuery", << >>, fs, "none", {})
         /\ UNCHANGED <<rows, seq>>
  ELSE LET ready_time == now + ReadyDelta
           row == insert_row(seq, r.table_id, r.dish_id, ready_time)
           o == [id |-> row.id, dish_id |-> r.dish_id, ready_time |-> ready_time]
       IN  /\ rows' = Append(rows, row)
           /\ seq' = nextval(seq)
           /\ IF f = "db_query_seq"
                THEN Return(p, r, "DatabaseQuery", << >>, fs, "none", {})
              ELSE IF r.header = {}
                THEN Return(p, r, "CREATED", <<to_json(o)>>, fs, "none", {})
                ELSE Await(p, r, "cache_set", {o}, fs)

\* State::add_order(table_id, dish_id) as called by create_order, and
\* create_order up to its next await: the return when the request carries no
\* token, the cache write when it does.
add_order(p, r, f, fs) ==
  IF f = "db_conn"
    THEN /\ Return(p, r, "DatabaseConnection", << >>, fs, "none", {})
         /\ UNCHANGED <<rows, seq>>
  ELSE IF f \in {"db_query", "db_query_seq"}
    THEN /\ Return(p, r, "DatabaseQuery", << >>, fs, "none", {})
         /\ seq' = IF f = "db_query_seq" THEN nextval(seq) ELSE seq
         /\ UNCHANGED rows
  ELSE LET ready_time == now + ReadyDelta
           row == insert_row(seq, r.table_id, r.dish_id, ready_time)
           o == [id |-> row.id, dish_id |-> r.dish_id, ready_time |-> ready_time]
       IN  /\ rows' = Append(rows, row)
           /\ seq' = nextval(seq)
           /\ IF r.header = {}
                THEN Return(p, r, "CREATED", <<to_json(o)>>, fs, "none", {})
                ELSE Await(p, r, "cache_set", {o}, fs)

\* create_order, from the request to its first await that reads or changes
\* shared state: Idempotency-Key is read; with a token a cache connection is
\* taken and cache.get is awaited; without one add_order is.
CreateOrder(p, table_id, dish_id, header, f) ==
  LET r == [op |-> "create", table_id |-> table_id, dish_id |-> dish_id,
            header |-> header, order_id |-> 0, from_id |-> {}, limit |-> {}]
      bad == \E h \in header : ~to_str_ok(h)
      got == IF header = {} \/ bad THEN {}
             ELSE redis_get(cache, now, key_of(r), f = "redis_get")
  IN  /\ pc[p] = "idle"
      /\ f \in (IF header = {} THEN {"ok", "db_conn", "db_query", "db_query_seq"}
                ELSE IF bad THEN {"ok"} ELSE {"ok", "redis_conn", "redis_get"})
      /\ IF header = {} THEN add_order(p, r, f, Met(f))
         ELSE /\ UNCHANGED <<rows, seq>>
              /\ IF bad THEN Return(p, r, "BadHeader", << >>, {}, "none", {})
                 ELSE IF f = "redis_conn"
                   THEN Return(p, r, "RedisConnection", << >>, Met(f), "none", {})
                 ELSE IF got # {}
                   THEN Return(p, r, "CREATED", <<CHOOSE v \in got : TRUE>>, {}, "hit",
                               {cache[key_of(r)].expires})
                 ELSE Await(p, r, "add_order", {}, Met(f))
      /\ UNCHANGED <<cache, now, walk>>

\* create_order after a cache miss: state.add_order(table_id, dish_id).await?
AddOrder(p, f) ==
  /\ pc[p] = "add_order"
  /\ f \in {"ok", "db_conn", "db_query", "db_query_seq"}
  /\ add_order(p, req[p], f, faults[p] \cup Met(f))
  /\ UNCHANGED <<cache, now, walk>>

\* create_order: cache.set_ex(&cache_key, &json, 600).await?, then the return.
CacheSet(p, f) ==
  /\ pc[p] = "cache_set"
  /\ f \in {"ok", "redis_set"}
  /\ LET o == CHOOSE x \in order[p] : TRUE
         json == to_json(o)
         fs == faults[p] \cup Met(f)
     IN  IF f = "redis_set"
           THEN /\ Return(p, req[p], "RedisQuery", << >>, fs, "miss", {})
                /\ UNCHANGED cache
           ELSE /\ cache' = redis_set_ex(cache, now, key_of(req[p]), json)
                /\ Respond(p, req[p], "CREATED", <<json>>, fs, "miss", {now + Ttl},
                           redis_get(cache, now, key_of(req[p]), FALSE))
  /\ UNCHANGED <<rows, seq, now, walk>>

\* As fetch_one, without AND deleted = false.
fetch_one_with_deleted(rs, table_id, order_id) ==
  {i \in 1..Len(rs) : rs[i].id = order_id /\ rs[i].table_id = table_id}

\* SELECT dish_id, ready_time FROM orders
\*   WHERE id = $1 AND table_id = $2 AND deleted = false
fetch_one(rs, table_id, order_id) ==
  {i \in 1..Len(rs) : rs[i].id = order_id /\ rs[i].table_id = table_id /\ ~rs[i].deleted}

\* State::get_order: rows.first() of the query, as an Order; {} is NotFound.
\* The query states no order, so any matching row may come first.
get_order(rs, table_id, order_id) ==
  {[id |-> order_id, dish_id |-> rs[i].dish_id, ready_time |-> rs[i].ready_time] :
     i \in fetch_one(rs, table_id, order_id)}

\* get_order of the controller: one query, then the Order as Json.
GetOrder(p, table_id, order_id, f) ==
  LET r == [op |-> "get", table_id |-> table_id, dish_id |-> 0, header |-> {},
            order_id |-> order_id, from_id |-> {}, limit |-> {}]
      found == get_order(rows, table_id, order_id)
  IN  /\ pc[p] = "idle"
      /\ f \in {"ok", "db_conn", "db_query"}
      /\ IF f = "db_conn" THEN Return(p, r, "DatabaseConnection", << >>, Met(f), "none", {})
         ELSE IF f = "db_query" THEN Return(p, r, "DatabaseQuery", << >>, Met(f), "none", {})
         ELSE IF found = {} THEN Return(p, r, "NotFound", << >>, {}, "none", {})
         ELSE \E o \in found : Return(p, r, "OK", <<to_json(o)>>, {}, "none", {})
      /\ UNCHANGED <<rows, seq, cache, now, walk>>

\* A u32 is held as its top bit and its low 31 bits: the value is
\* top * 2^31 + low.
U32(n) == [top |-> 0, low |-> n]
U32Max == [top |-> 1, low |-> 2147483647]

\* x as i32 of a u32: the same 32 bits read as two's complement, so the top
\* bit counts -2^31.
as_i32(x) == IF x.top = 1 THEN (x.low - 2147483647) - 1 ELSE x.low

\* As fetch_page, without table_id = $1.
fetch_page_all_tables(rs, table_id, from_id) ==
  {i \in 1..Len(rs) : ~rs[i].deleted /\ \A x \in from_id : rs[i].id >= x}

\* As fetch_page, without deleted = false.
fetch_page_with_deleted(rs, table_id, from_id) ==
  {i \in 1..Len(rs) : rs[i].table_id = table_id /\ \A x \in from_id : rs[i].id >= x}

\* As fetch_page, with id > $2.
fetch_page_exclusive(rs, table_id, from_id) ==
  {i \in 1..Len(rs) : /\ rs[i].table_id = table_id
                      /\ ~rs[i].deleted
                      /\ \A x \in from_id : rs[i].id > x}

\* WHERE table_id = $1 AND deleted = false [AND id >= $2]
fetch_page(rs, table_id, from_id) ==
  {i \in 1..Len(rs) : /\ rs[i].table_id = table_id
                      /\ ~rs[i].deleted
                      /\ \A x \in from_id : rs[i].id >= x}

\* The sequences that list each index of S once.
Perms(S) ==
  {q \in [1..Cardinality(S) -> S] : \A i, j \in 1..Cardinality(S) : q[i] = q[j] => i = j}

\* As Ordered, by ORDER BY id DESC.
OrderedDescending(rs, q) == \A i, j \in 1..Len(q) : i < j => rs[q[i]].id >= rs[q[j]].id

\* ORDER BY id.
Ordered(rs, q) == \A i, j \in 1..Len(q) : i < j => rs[q[i]].id <= rs[q[j]].id

\* LIMIT n; no LIMIT when n is None.
Limited(q, limit) ==
  IF limit = {} THEN q
  ELSE LET n == CHOOSE x \in limit : TRUE
       IN  SubSeq(q, 1, IF n < Len(q) THEN n ELSE Len(q))

\* State::get_orders: the results its query may give, as sequences of Orders.
\* Only the three queries with a from_id or a limit state ORDER BY id.
get_orders(rs, table_id, from_id, limit) ==
  LET hits == fetch_page(rs, table_id, from_id)
      orders == {q \in Perms(hits) : (from_id = {} /\ limit = {}) \/ Ordered(rs, q)}
  IN  {[k \in 1..Len(Limited(q, limit)) |->
          [id |-> rs[q[k]].id, dish_id |-> rs[q[k]].dish_id,
           ready_time |-> rs[q[k]].ready_time]] : q \in orders}

Jsons(os) == [k \in 1..Len(os) |-> to_json(os[k])]

\* get_orders of the controller: from_id and limit are cast from u32 to i32,
\* one query is made (Postgres refuses a negative LIMIT), the Orders go out as Json.
list_orders(p, table_id, from_id, limit, f) ==
  LET r == [op |-> "list", table_id |-> table_id, dish_id |-> 0, header |-> {},
            order_id |-> 0, from_id |-> from_id, limit |-> limit]
      from_i32 == {as_i32(x) : x \in from_id}
      limit_i32 == {as_i32(x) : x \in limit}
  IN  /\ pc[p] = "idle"
      /\ f \in {"ok", "db_conn", "db_query"}
      /\ IF f = "db_conn" THEN Return(p, r, "DatabaseConnection", << >>, Met(f), "none", {})
         ELSE IF f = "db_query" \/ \E n \in limit_i32 : n < 0
           THEN Return(p, r, "DatabaseQuery", << >>, Met(f), "none", {})
         ELSE \E os \in get_orders(rows, table_id, from_i32, limit_i32) :
                Return(p, r, "OK", Jsons(os), {}, "none", {})
      /\ UNCHANGED <<rows, seq, cache, now>>

\* A list request of any client but the paging one.
GetOrders(p, table_id, from_id, limit, f) ==
  /\ list_orders(p, table_id, from_id, limit, f)
  /\ UNCHANGED walk

\* As mark_deleted, without AND deleted = false.
mark_deleted_again(rs, table_id, order_id) ==
  {i \in 1..Len(rs) : rs[i].id = order_id /\ rs[i].table_id = table_id}

\* UPDATE orders SET deleted = true
\*   WHERE id = $1 AND table_id = $2 AND deleted = false
mark_deleted(rs, table_id, order_id) ==
  {i \in 1..Len(rs) : rs[i].id = order_id /\ rs[i].table_id = table_id /\ ~rs[i].deleted}

\* As delete_status, but no row updated is no error.
delete_status_lenient(rows_updated) ==
  IF rows_updated <= 1 THEN "NO_CONTENT" ELSE "Bug"

\* State::delete_order: the status that rows_updated maps to.
delete_status(rows_updated) ==
  IF rows_updated = 0 THEN "NotFound"
  ELSE IF rows_updated = 1 THEN "NO_CONTENT"
  ELSE "Bug"

\* As DeleteOrder, but by DELETE FROM orders WHERE ... in place of the UPDATE.
DeleteOrderHard(p, table_id, order_id, f) ==
  LET r == [op |-> "delete", table_id |-> table_id, dish_id |-> 0, header |-> {},
            order_id |-> order_id, from_id |-> {}, limit |-> {}]
      hit == mark_deleted(rows, table_id, order_id)
      Kept(x) == ~(x.id = order_id /\ x.table_id = table_id /\ ~x.deleted)
  IN  /\ pc[p] = "idle"
      /\ f \in {"ok", "db_conn", "db_query"}
      /\ IF f = "db_conn"
           THEN Return(p, r, "DatabaseConnection", << >>, Met(f), "none", {}) /\ UNCHANGED rows
         ELSE IF f = "db_query"
           THEN Return(p, r, "DatabaseQuery", << >>, Met(f), "none", {}) /\ UNCHANGED rows
         ELSE /\ rows' = SelectSeq(rows, Kept)
              /\ Return(p, r, delete_status(Cardinality(hit)), << >>, {}, "none", {})
      /\ UNCHANGED <<seq, cache, now, walk>>

\* As DeleteOrder, but a delete that took a row also drops the cache entries
\* (FLUSHDB).
DeleteOrderEvicting(p, table_id, order_id, f) ==
  LET r == [op |-> "delete", table_id |-> table_id, dish_id |-> 0, header |-> {},
            order_id |-> order_id, from_id |-> {}, limit |-> {}]
      hit == mark_deleted(rows, table_id, order_id)
  IN  /\ pc[p] = "idle"
      /\ f \in {"ok", "db_conn", "db_query"}
      /\ IF f = "db_conn"
           THEN Return(p, r, "DatabaseConnection", << >>, Met(f), "none", {}) /\ UNCHANGED rows
         ELSE IF f = "db_query"
           THEN Return(p, r, "DatabaseQuery", << >>, Met(f), "none", {}) /\ UNCHANGED rows
         ELSE /\ rows' = [i \in 1..Len(rows) |->
                            IF i \in hit THEN [rows[i] EXCEPT !.deleted = TRUE] ELSE rows[i]]
              /\ Return(p, r, delete_status(Cardinality(hit)), << >>, {}, "none", {})
      /\ cache' = IF f = "ok" /\ hit # {} THEN << >> ELSE cache
      /\ UNCHANGED <<seq, now, walk>>

\* delete_order of the controller over State::delete_order.
DeleteOrder(p, table_id, order_id, f) ==
  LET r == [op |-> "delete", table_id |-> table_id, dish_id |-> 0, header |-> {},
            order_id |-> order_id, from_id |-> {}, limit |-> {}]
      hit == mark_deleted(rows, table_id, order_id)
  IN  /\ pc[p] = "idle"
      /\ f \in {"ok", "db_conn", "db_query"}
      /\ IF f = "db_conn"
           THEN Return(p, r, "DatabaseConnection", << >>, Met(f), "none", {}) /\ UNCHANGED rows
         ELSE IF f = "db_query"
           THEN Return(p, r, "DatabaseQuery", << >>, Met(f), "none", {}) /\ UNCHANGED rows
         ELSE /\ rows' = [i \in 1..Len(rows) |->
                            IF i \in hit THEN [rows[i] EXCEPT !.deleted = TRUE] ELSE rows[i]]
              /\ Return(p, r, delete_status(Cardinality(hit)), << >>, {}, "none", {})
      /\ UNCHANGED <<seq, cache, now, walk>>

\* order_pagination_works: the client asks for the first page of a table,
\* from_id 0 and a fixed limit.
WalkStart(table_id, limit) ==
  /\ walk.state # "walking"
  /\ walk' = [state |-> "walking", table_id |-> table_id, limit |-> limit,
              from_id |-> 0, seen |-> << >>, start |-> rows]
  /\ UNCHANGED <<rows, seq, cache, now, pc, req, order, faults, last>>

\* The client gets a page through get_orders and, unless the page came back
\* short, asks for the next from the last id + 1.
WalkPage(p) ==
  /\ walk.state = "walking"
  /\ list_orders(p, walk.table_id, {U32(walk.from_id)}, {U32(walk.limit)}, "ok")
  /\ LET page == last'.body
     IN  walk' = [walk EXCEPT
                    !.seen = @ \o [k \in 1..Len(page) |-> page[k].id],
                    !.state = IF Len(page) < walk.limit THEN "done" ELSE "walking",
                    !.from_id = IF Len(page) = 0 THEN @ ELSE page[Len(page)].id + 1]

\* Time passes: one tick short of the cache's time to live, or that one tick.
Tick(d) ==
  /\ \/ d = 1 /\ (now - StartTick) % BigStep < MaxFine
     \/ d = BigStep /\ (now - StartTick) \div BigStep < MaxBig
  /\ now' = now + d
  /\ UNCHANGED <<rows, seq, cache, pc, req, order, faults, last, walk>>

Faults ==
  {"ok", "redis_conn", "redis_get", "redis_set", "db_conn", "db_query", "db_query_seq"}

Ids == 1..MaxOrders
TableIds == {1, 2}
Tokens == {TokenA, TokenB}

\* The creation protocol under concurrency: creates on two tables, with and
\* without token, and deletes, under every dependency failure.
Next ==
  \/ \E p \in Procs, t \in TableIds, h \in {{}, {TokenA}}, f \in Faults :
       Room(MaxOrders) /\ CreateOrder(p, t, 10, h, f)
  \/ \E p \in Procs, f \in Faults : AddOrder(p, f)
  \/ \E p \in Procs, f \in Faults : CacheSet(p, f)
  \/ \E t \in TableIds, id \in Ids : DeleteOrder(1, t, id, "ok")

Spec == Init /\ [][Next]_vars

\* The creation protocol over time: one request after the other, under two
\* tokens, while cache entries age and expire.
NextExpiry ==
  \/ \E h \in {{TokenA}, {TokenB}}, f \in Faults :
       Room(MaxOrders) /\ CreateOrder(1, 1, 10, h, f)
  \/ \E f \in Faults : AddOrder(1, f)
  \/ \E f \in Faults : CacheSet(1, f)
  \/ \E d \in {1, BigStep} : Tick(d)

SpecExpiry == Init /\ [][NextExpiry]_vars

StoreFroms == {{}, {U32(2)}}
StoreLimits == {{}, {U32(1)}}

\* The failures a read or a delete can meet.
StoreFaults == {"ok", "db_conn", "db_query"}

\* The store operations, one request at a time: creates without token, gets,
\* lists and deletes on two tables, under the failures of the store.
NextStore ==
  \/ \E t \in TableIds, d \in {10, 11}, h \in {{}, {BadBytes}}, f \in Faults :
       Room(MaxOrders) /\ CreateOrder(1, t, d, h, f)
  \/ \E t \in TableIds, id \in Ids, f \in StoreFaults : GetOrder(1, t, id, f)
  \/ \E t \in TableIds, from \in StoreFroms, n \in StoreLimits, f \in StoreFaults :
       GetOrders(1, t, from, n, f)
  \/ \E t \in TableIds, id \in Ids, f \in StoreFaults : DeleteOrder(1, t, id, f)

SpecStore == Init /\ [][NextStore]_vars

\* The paging client on table 1, while orders are created on both tables
\* (the sequence skipping an id when an insert fails) and deleted.
NextWalk ==
  \/ \E t \in TableIds, f \in {"ok", "db_query_seq"} :
       Room(MaxWalkOrders) /\ CreateOrder(1, t, 10, {}, f)
  \/ \E id \in 1..MaxWalkOrders : DeleteOrder(1, 1, id, "ok")
  \/ \E n \in 1..MaxLimit : WalkStart(1, n)
  \/ WalkPage(1)

SpecWalk == Init /\ [][NextWalk]_vars

PageFroms == {{}, {U32(0)}, {U32(2)}, {U32Max}}
PageLimits == {{}, {U32(1)}, {U32Max}}

\* The list requests over the whole range of u32, on tables where orders are
\* created (the sequence skipping an id when an insert fails) and deleted.
NextPage ==
  \/ \E t \in TableIds, f \in {"ok", "db_query_seq"} :
       Room(MaxOrders) /\ CreateOrder(1, t, 10, {}, f)
  \/ \E t \in TableIds, id \in Ids : DeleteOrder(1, t, id, "ok")
  \/ \E t \in TableIds, from \in PageFroms, n \in PageLimits :
       GetOrders(1, t, from, n, "ok")

SpecPage == Init /\ [][NextPage]_vars

\* Creates with tokens on one table, and gets, lists and deletes of the
\* orders they made, one request at a time, under every dependency failure
\* of a create.
NextCache ==
  \/ \E h \in {{TokenA}, {TokenB}}, f \in Faults :
       Room(MaxOrders) /\ CreateOrder(1, 1, 10, h, f)
  \/ \E f \in Faults : AddOrder(1, f)
  \/ \E f \in Faults : CacheSet(1, f)
  \/ \E id \in Ids : GetOrder(1, 1, id, "ok")
  \/ GetOrders(1, 1, {}, {}, "ok")
  \/ \E id \in Ids : DeleteOrder(1, 1, id, "ok")

SpecCache == Init /\ [][NextCache]_vars

\* ------------------------------------------------------------- claims
DishIds == {10, 11}

\* The create request of (table_id, dish_id) under a header.
CreateReq(t, d, header) ==
  [op |-> "create", table_id |-> t, dish_id |-> d, header |-> header,
   order_id |-> 0, from_id |-> {}, limit |-> {}]

\* A create under cache key k is in flight.
KeyInFlight(k) ==
  \E q \in Procs : pc[q] # "idle" /\ req[q].header # {} /\ key_of(req[q]) = k

\* The rows that carry id.
RowsOf(rs, id) == {i \in 1..Len(rs) : rs[i].id = id}

\* C1. Idempotent creation, sequential case: when the last response is a
\* successful create under (table_id, dish_id, token), the cache entry it hit
\* or wrote has not reached its 600 s, no create for that key is in flight,
\* and the same request comes again and meets no failure, then it is answered
\* at once with the same body (id, dish_id, ready_time), the store is left as
\* it is, exactly one row carries that id, and every list of the table shows
\* that order exactly once.
C1_IdempotentRetry ==
  [][\A p \in Procs, t \in TableIds, d \in DishIds, h \in Tokens :
       ( /\ last.req = CreateReq(t, d, {h})
         /\ last.status = "CREATED"
         /\ last.entry_exp # {}
         /\ \A e \in last.entry_exp : now < e
         /\ ~KeyInFlight(cache_key(t, d, h))
         /\ CreateOrder(p, t, d, {h}, "ok") )
       => /\ pc'[p] = "idle"
          /\ last'.status = "CREATED"
          /\ last'.body = last.body
          /\ rows' = rows
          /\ Cardinality(RowsOf(rows', last'.body[1].id)) = 1
          /\ \A os \in get_orders(rows', t, {}, {}) :
               Cardinality({k \in 1..Len(os) : os[k].id = last'.body[1].id}) = 1
    ]_vars

\* C1 witness: a retry was answered from the cache after time had passed,
\* and one row carries its id.
C1_Witness ==
  /\ last.lookup = "hit"
  /\ last.status = "CREATED"
  /\ now > StartTick
  /\ Cardinality(RowsOf(rows, last.body[1].id)) = 1

\* C2. The creation race: when a create that missed the cache and inserted
\* its row writes the cache right after another create of the same
\* (table_id, dish_id, token) that also missed, inserted and wrote, then the
\* store holds two rows for the token (non-deleted unless a delete took one),
\* the cache entry holds the order of the request that wrote last, and the
\* other row cannot be reached through the token.
C2_CreationRace ==
  [][\A p \in Procs :
       ( /\ pc[p] = "cache_set"
         /\ last.status = "CREATED"
         /\ last.lookup = "miss"
         /\ last.proc # p
         /\ last.req = req[p]
         /\ CacheSet(p, "ok") )
       => LET mine == (CHOOSE o \in order[p] : TRUE).id
              other == last.body[1].id
              k == key_of(req[p])
          IN  /\ mine # other
              /\ Cardinality(RowsOf(rows', mine)) = 1
              /\ Cardinality(RowsOf(rows', other)) = 1
              /\ \A i \in RowsOf(rows', mine) \cup RowsOf(rows', other) :
                   /\ rows'[i].table_id = req[p].table_id
                   /\ rows'[i].dish_id = req[p].dish_id
                   /\ rows'[i].deleted = rows[i].deleted
              /\ last'.status = "CREATED"
              /\ last'.body[1].id = mine
              /\ redis_get(cache', now', k, FALSE) = {last'.body[1]}
              /\ last'.overwrote = {last.body[1]}
    ]_vars

\* C2 witness: a create that met no failure and missed the cache found, when
\* it wrote, the live entry of another order; both rows are there, not
\* deleted, and the token leads to the later one only.
C2_Witness ==
  /\ last.status = "CREATED"
  /\ last.lookup = "miss"
  /\ last.faults = {}
  /\ last.overwrote # {}
  /\ \A v \in last.overwrote :
       /\ v.id # last.body[1].id
       /\ \E i, j \in 1..Len(rows) :
            /\ rows[i].id = v.id /\ ~rows[i].deleted
            /\ rows[j].id = last.body[1].id /\ ~rows[j].deleted
  /\ redis_get(cache, now, key_of(last.req), FALSE) = {last.body[1]}

\* C3, as claimed: a create whose cache write failed after its insert still
\* answers with the created order.
C3_CacheWriteFailureNonFatal ==
  "redis_set" \in last.faults => (last.status = "CREATED" /\ Len(last.body) = 1)

\* C4, as claimed: a create with a token that met only failures of the cache
\* read step (no cache connection, or a failed lookup) is answered as after a
\* miss, with the order it created.
C4_ReadFailureIsMiss ==
  ( /\ last.req.op = "create"
    /\ last.faults # {}
    /\ last.faults \subseteq {"redis_conn", "redis_get"} )
  => (last.status = "CREATED" /\ last.lookup = "miss")

\* C4, amended: a failed cache.get is taken as a miss whatever the cache
\* holds: the request goes on to the insert, and when nothing else fails it
\* is answered with the order it inserted; a cache connection that cannot be
\* had is answered with RedisConnection and nothing is inserted.
C4_LookupErrorIsMiss ==
  [][/\ \A p \in Procs : \A r \in {req'[p], last'.req} :
          /\ (pc[p] = "idle" /\ r.op = "create" /\ r.header # {}
                /\ CreateOrder(p, r.table_id, r.dish_id, r.header, "redis_get"))
               => /\ pc'[p] = "add_order"
                  /\ req'[p] = r
                  /\ UNCHANGED <<rows, cache, last>>
          /\ (pc[p] = "idle" /\ r.op = "create" /\ r.header # {}
                /\ CreateOrder(p, r.table_id, r.dish_id, r.header, "redis_conn"))
               => /\ pc'[p] = "idle"
                  /\ last'.status = "RedisConnection"
                  /\ UNCHANGED <<rows, seq, cache>>
     /\ \A p \in Procs :
          (pc[p] = "add_order" /\ faults[p] = {"redis_get"} /\ AddOrder(p, "ok"))
            => /\ pc'[p] = "cache_set"
               /\ Len(rows') = Len(rows) + 1
               /\ \E o \in order'[p] :
                    /\ rows'[Len(rows')].id = o.id
                    /\ rows'[Len(rows')].table_id = req[p].table_id
                    /\ rows'[Len(rows')].dish_id = o.dish_id
     /\ \A p \in Procs :
          (pc[p] = "cache_set" /\ faults[p] = {"redis_get"} /\ CacheSet(p, "ok"))
            => /\ last'.status = "CREATED"
               /\ last'.faults = {"redis_get"}
               /\ \E o \in order[p] : last'.body = <<to_json(o)>>
    ]_vars

\* C4 witness: a create whose lookup failed while the cache held a live entry
\* for its key was answered with a new order.
C4_Witness ==
  /\ last.faults = {"redis_get"}
  /\ last.status = "CREATED"
  /\ last.overwrote # {}
  /\ \A v \in last.overwrote : v.id # last.body[1].id

\* The rows a delete_order(table_id, id) is about: not deleted, of that
\* table, with that id.
Matching(rs, t, id) ==
  {i \in 1..Len(rs) : rs[i].id = id /\ rs[i].table_id = t /\ ~rs[i].deleted}

\* No list of table t shows an order with that id.
Unlisted(rs, t, id) ==
  \A os \in get_orders(rs, t, {}, {}) : \A k \in 1..Len(os) : os[k].id # id

\* C5, as claimed: a delete_order(table_id, id) of an order that an earlier
\* delete_order already took is answered with success.
C5_SecondDeleteSucceeds ==
  [][LET r == last'.req
     IN  ( /\ r.op = "delete"
           /\ \E i \in 1..Len(rows) :
                rows[i].id = r.order_id /\ rows[i].table_id = r.table_id /\ rows[i].deleted
           /\ DeleteOrder(last'.proc, r.table_id, r.order_id, "ok") )
         => last'.status = "NO_CONTENT"
    ]_vars

\* C5, amended: the second delete_order(table_id, id) is answered NotFound,
\* not success; it leaves the store as it is, and a deleted order stays
\* deleted and is absent from every get_order and every list of its table.
C5_SecondDeleteNotFound ==
  [][/\ LET r == last'.req
        IN  ( /\ r.op = "delete"
              /\ \E i \in 1..Len(rows) :
                   rows[i].id = r.order_id /\ rows[i].table_id = r.table_id /\ rows[i].deleted
              /\ DeleteOrder(last'.proc, r.table_id, r.order_id, "ok") )
            => /\ last'.status = "NotFound"
               /\ rows' = rows
     /\ \A i \in 1..Len(rows) :
          rows[i].deleted
            => /\ i <= Len(rows')
               /\ rows'[i].deleted
               /\ get_order(rows', rows[i].table_id, rows[i].id) = {}
               /\ Unlisted(rows', rows[i].table_id, rows[i].id)
    ]_vars

\* C5 witness: a delete_order was answered NotFound for an order of that
\* table that is there and deleted.
C5_Witness ==
  /\ last.req.op = "delete"
  /\ last.status = "NotFound"
  /\ \E i \in 1..Len(rows) :
       /\ rows[i].id = last.req.order_id
       /\ rows[i].table_id = last.req.table_id
       /\ rows[i].deleted

\* C6. The outcome of delete_order(table_id, id) is fixed by the number of
\* non-deleted rows with that table_id and id: none gives NotFound and
\* leaves every row as it is, one gives success and sets the deleted flag of
\* that row alone; the number is never above one, and Bug is never answered.
C6_DeleteOutcome ==
  [][LET r == last'.req
         m == Matching(rows, r.table_id, r.order_id)
     IN  (r.op = "delete" /\ DeleteOrder(last'.proc, r.table_id, r.order_id, "ok"))
         => /\ Cardinality(m) \in {0, 1}
            /\ last'.status # "Bug"
            /\ Cardinality(m) = 0 => (last'.status = "NotFound" /\ rows' = rows)
            /\ Cardinality(m) = 1
                 => /\ last'.status = "NO_CONTENT"
                    /\ Len(rows') = Len(rows)
                    /\ \A i \in 1..Len(rows) :
                         rows'[i] = IF i \in m THEN [rows[i] EXCEPT !.deleted = TRUE]
                                    ELSE rows[i]
    ]_vars

\* C6 witness: a delete_order succeeded and its row, alone, is deleted.
C6_Witness ==
  /\ last.req.op = "delete"
  /\ last.status = "NO_CONTENT"
  /\ \E i, j \in 1..Len(rows) :
       /\ rows[i].id = last.req.order_id /\ rows[i].deleted
       /\ rows[j].table_id = rows[i].table_id /\ ~rows[j].deleted

\* C7. get_order(table_id, id) gives an Order exactly when a row has that
\* id, that table_id and deleted = false, and then that row's dish_id and
\* ready_time; otherwise, whether the id was never assigned, is of another
\* table or is deleted, the answer is the one NotFound.
C7_GetOrder ==
  [][LET r == last'.req
         m == Matching(rows, r.table_id, r.order_id)
     IN  (r.op = "get" /\ GetOrder(last'.proc, r.table_id, r.order_id, "ok"))
         => /\ m = {} => (last'.status = "NotFound" /\ last'.body = << >>)
            /\ \A i \in m :
                 /\ get_order(rows, r.table_id, r.order_id) =
                      {[id |-> r.order_id, dish_id |-> rows[i].dish_id,
                        ready_time |-> rows[i].ready_time]}
                 /\ last'.status = "OK"
                 /\ last'.body = <<[id |-> r.order_id, dish_id |-> rows[i].dish_id,
                                    ready_time |-> rows[i].ready_time \div TicksPerSec]>>
    ]_vars

\* C7 witness: a get_order was answered NotFound for an id that a row of
\* another table carries, not deleted.
C7_Witness ==
  /\ last.req.op = "get"
  /\ last.status = "NotFound"
  /\ \E i \in 1..Len(rows) :
       /\ rows[i].id = last.req.order_id
       /\ rows[i].table_id # last.req.table_id
       /\ ~rows[i].deleted

\* C8. Table isolation: a list or a get for table B gives no order of a row
\* of another table, and delete_order(B, id) changes no row of another table.
C8_TableIsolation ==
  [][LET r == last'.req
         p == last'.proc
     IN  /\ (r.op = "list" /\ GetOrders(p, r.table_id, r.from_id, r.limit, "ok"))
              => \A k \in 1..Len(last'.body) : \A i \in RowsOf(rows, last'.body[k].id) :
                   rows[i].table_id = r.table_id
         /\ (r.op = "get" /\ last'.status = "OK" /\ GetOrder(p, r.table_id, r.order_id, "ok"))
              => \A i \in RowsOf(rows, last'.body[1].id) : rows[i].table_id = r.table_id
         /\ (r.op = "delete" /\ DeleteOrder(p, r.table_id, r.order_id, "ok"))
              => /\ Len(rows') = Len(rows)
                 /\ \A i \in 1..Len(rows) :
                      rows[i].table_id # r.table_id => rows'[i] = rows[i]
    ]_vars

\* C8 witness: a list of one table came back with an order while the other
\* table held an order too, not deleted.
C8_Witness ==
  /\ last.req.op = "list"
  /\ last.status = "OK"
  /\ Len(last.body) >= 1
  /\ \E i \in 1..Len(rows) : rows[i].table_id # last.req.table_id /\ ~rows[i].deleted

\* C9. Identity uniqueness: no two rows carry the same id; no step takes a
\* row away or changes the id of one, and the id of a row inserted is above
\* every id of the rows there, deleted or not.
C9_IdsUnique == \A i, j \in 1..Len(rows) : rows[i].id = rows[j].id => i = j

C9_IdentityUniqueness ==
  []C9_IdsUnique
  /\ [][/\ Len(rows') >= Len(rows)
        /\ \A i \in 1..Len(rows) : rows'[i].id = rows[i].id
        /\ \A j \in (Len(rows) + 1)..Len(rows') : \A i \in 1..Len(rows) :
             rows'[j].id > rows[i].id
       ]_vars

\* C9 witness: a create has inserted the second row of a table whose first
\* row is deleted, while the other create is in flight.
C9_Witness ==
  /\ Len(rows) = 2
  /\ rows[1].deleted
  /\ ~rows[2].deleted
  /\ rows[1].table_id = rows[2].table_id
  /\ rows[1].id < rows[2].id
  /\ \E p \in Procs : pc[p] = "cache_set"

\* C10. Keyset pagination: a page walk of a table that starts at from_id 0
\* with a limit L >= 1, asks for each next page from the last id + 1 and ends
\* with the first page shorter than L has, when the rows did not change in
\* between, returned the ids of the table's non-deleted rows in ascending
\* order, each once and no other.
C10_PageWalkComplete ==
  (walk.state = "done" /\ rows = walk.start)
  => /\ \A i, j \in 1..Len(walk.seen) : i < j => walk.seen[i] < walk.seen[j]
     /\ {walk.seen[k] : k \in 1..Len(walk.seen)} =
          {rows[i].id : i \in {x \in 1..Len(rows) :
                                 rows[x].table_id = walk.table_id /\ ~rows[x].deleted}}

\* C10 witness: a walk of pages of one went over two orders, with a deleted
\* order of the table between them, and then met the empty page.
C10_Witness ==
  /\ walk.state = "done"
  /\ rows = walk.start
  /\ walk.limit = 1
  /\ Len(walk.seen) = 2
  /\ \E i \in 1..Len(rows) :
       /\ rows[i].table_id = walk.table_id
       /\ rows[i].deleted
       /\ walk.seen[1] < rows[i].id
       /\ rows[i].id < walk.seen[2]

\* The list the caller of get_orders(t, from, limit) is promised, from and
\* limit being u32 values where given: the non-deleted rows of table t with
\* id >= from, ascending by id, the first limit of them, as they go out.
PromisedPage(rs, t, from, limit) ==
  LET S == {i \in 1..Len(rs) : /\ rs[i].table_id = t
                               /\ ~rs[i].deleted
                               /\ \A x \in from : x.top = 0 /\ rs[i].id >= x.low}
      q == CHOOSE f \in [1..Cardinality(S) -> S] :
             \A i, j \in 1..Cardinality(S) : i < j => rs[f[i]].id < rs[f[j]].id
      cap == IF \E x \in limit : x.top = 0 /\ x.low < Cardinality(S)
               THEN (CHOOSE x \in limit : TRUE).low
               ELSE Cardinality(S)
  IN  [k \in 1..cap |->
         [id |-> rs[q[k]].id, dish_id |-> rs[q[k]].dish_id,
          ready_time |-> rs[q[k]].ready_time \div TicksPerSec]]

\* C11, as claimed: a list call, from_id and limit each given (below 2^31)
\* or left out, is answered with the non-deleted rows of the table with
\* id >= from_id, ascending by id, the first limit of them.
C11_ListSortedAndCut ==
  [][LET r == last'.req
     IN  ( /\ r.op = "list"
           /\ \A x \in r.from_id \cup r.limit : x.top = 0
           /\ GetOrders(last'.proc, r.table_id, r.from_id, r.limit, "ok") )
         => /\ last'.status = "OK"
            /\ last'.body = PromisedPage(rows, r.table_id, r.from_id, r.limit)
    ]_vars

\* No delete took a row since the walk started: the rows of then are as they
\* were and no row inserted since is deleted.
NoDeleteSince ==
  \A i \in 1..Len(rows) :
    IF i <= Len(walk.start) THEN rows[i] = walk.start[i] ELSE ~rows[i].deleted

\* C12. A page walk is stable under concurrent inserts: while creates go on
\* and no delete occurs, the ids the walk has returned are strictly
\* ascending (none on two pages), each is the id of a non-deleted order of
\* the table, and when the walk is done every order that was on the table,
\* non-deleted, when it started has been returned.
C12_WalkStableUnderInserts ==
  (walk.state # "idle" /\ NoDeleteSince)
  => /\ \A i, j \in 1..Len(walk.seen) : i < j => walk.seen[i] < walk.seen[j]
     /\ \A k \in 1..Len(walk.seen) : \E i \in 1..Len(rows) :
          /\ rows[i].id = walk.seen[k]
          /\ rows[i].table_id = walk.table_id
          /\ ~rows[i].deleted
     /\ walk.state = "done"
          => \A i \in 1..Len(walk.start) :
               (walk.start[i].table_id = walk.table_id /\ ~walk.start[i].deleted)
                 => \E k \in 1..Len(walk.seen) : walk.seen[k] = walk.start[i].id

\* C12 witness: a walk of pages of one is done; it returned an order that
\* was there when it started and then one that was inserted after.
C12_Witness ==
  /\ walk.state = "done"
  /\ walk.limit = 1
  /\ NoDeleteSince
  /\ Len(walk.seen) >= 2
  /\ \E i \in 1..Len(walk.start) : walk.start[i].id = walk.seen[1]
  /\ \E i \in (Len(walk.start) + 1)..Len(rows) : rows[i].id = walk.seen[Len(walk.seen)]

\* C13. A cache hit: a create with a token whose key has a live entry, the
\* lookup not failing, is answered at once with the entry's value as it is
\* (the id and ready_time the first create answered with); rows and sequence
\* of the store and the cache, values and expiries, are left as they are.
C13_HitReturnsCachedVerbatim ==
  [][\A p \in Procs : \A r \in {req'[p], last'.req} :
       ( /\ pc[p] = "idle"
         /\ r.op = "create"
         /\ r.header # {}
         /\ key_of(r) \in DOMAIN cache
         /\ now < cache[key_of(r)].expires
         /\ CreateOrder(p, r.table_id, r.dish_id, r.header, "ok") )
       => /\ pc'[p] = "idle"
          /\ last'.status = "CREATED"
          /\ last'.body = <<cache[key_of(r)].value>>
          /\ \E i \in 1..Len(rows) :
               /\ rows[i].id = last'.body[1].id
               /\ rows[i].ready_time \div TicksPerSec = last'.body[1].ready_time
          /\ UNCHANGED <<rows, seq, cache>>
    ]_vars

\* C13 witness: a create was answered from the cache on the last tick of
\* the entry's life; the entry is as it was written.
C13_Witness ==
  /\ last.lookup = "hit"
  /\ last.status = "CREATED"
  /\ key_of(last.req) \in DOMAIN cache
  /\ cache[key_of(last.req)].value = last.body[1]
  /\ cache[key_of(last.req)].expires = now + 1
  /\ Len(rows) = 1

\* C14. A create without a token leaves the cache alone, whatever it holds,
\* and when its insert succeeds it adds exactly one row, of the request's
\* table and dish, under an id that no row carried before, and answers
\* with that id, whatever creates came before.
C14_NoTokenSkipsCache ==
  [][LET r == last'.req
         p == last'.proc
     IN  ( /\ r.op = "create"
           /\ r.header = {}
           /\ \E f \in Faults :
                Met(f) = last'.faults /\ CreateOrder(p, r.table_id, r.dish_id, {}, f) )
         => /\ cache' = cache
            /\ last'.lookup = "none"
            /\ last'.faults = {}
                 => /\ last'.status = "CREATED"
                    /\ Len(rows') = Len(rows) + 1
                    /\ SubSeq(rows', 1, Len(rows)) = rows
                    /\ RowsOf(rows, rows'[Len(rows')].id) = {}
                    /\ rows'[Len(rows')].table_id = r.table_id
                    /\ rows'[Len(rows')].dish_id = r.dish_id
                    /\ ~rows'[Len(rows')].deleted
                    /\ last'.body[1].id = rows'[Len(rows')].id
    ]_vars

\* C14 witness: a create without a token added the second order of its
\* table and dish while the cache held an entry for that table and dish,
\* which is as it was.
C14_Witness ==
  /\ last.req.op = "create"
  /\ last.req.header = {}
  /\ last.status = "CREATED"
  /\ Len(rows) = 2
  /\ rows[1].table_id = rows[2].table_id
  /\ rows[2].id = last.body[1].id
  /\ \E h \in Tokens :
       LET k == cache_key(last.req.table_id, last.req.dish_id, h)
       IN  k \in DOMAIN cache /\ cache[k].value.id = rows[1].id

\* C15. Cache entry lifetime: the entry a create writes expires 600 seconds
\* after the write; nothing but such a write changes an entry, so a hit does
\* not extend it; a create with the token is a hit while the entry is
\* unexpired and a miss from its expiry on, and the miss inserts a row under
\* a new id and writes a new entry with that id.
C15_EntryLifetime ==
  [][/\ \A p \in Procs :
          (pc[p] = "cache_set" /\ CacheSet(p, "ok"))
            => LET k == key_of(req[p])
               IN  /\ cache'[k].expires = now + CacheTtlSecs * TicksPerSec
                   /\ cache'[k].value = last'.body[1]
                   /\ k \in DOMAIN cache => cache[k].value.id # cache'[k].value.id
     /\ \A k \in DOMAIN cache :
          (k \notin DOMAIN cache' \/ cache'[k] # cache[k])
            => \E p \in Procs : pc[p] = "cache_set" /\ pc'[p] = "idle" /\ key_of(req[p]) = k
     /\ \A p \in Procs : \A r \in {req'[p], last'.req} :
          ( /\ pc[p] = "idle"
            /\ r.op = "create"
            /\ r.header # {}
            /\ CreateOrder(p, r.table_id, r.dish_id, r.header, "ok") )
          => IF key_of(r) \in DOMAIN cache /\ now < cache[key_of(r)].expires
               THEN pc'[p] = "idle" /\ last'.lookup = "hit" /\ last'.proc = p
               ELSE pc'[p] = "add_order" /\ last' = last
     /\ \A p \in Procs :
          (pc[p] = "add_order" /\ AddOrder(p, "ok"))
            => /\ Len(rows') = Len(rows) + 1
               /\ RowsOf(rows, rows'[Len(rows')].id) = {}
               /\ \E o \in order'[p] : o.id = rows'[Len(rows')].id
    ]_vars

\* C15 witness: a create with the token of an entry that has expired missed
\* and inserted a second row, under another id than the entry's; it is
\* about to write the new entry.
C15_Witness ==
  /\ pc[1] = "cache_set"
  /\ faults[1] = {}
  /\ key_of(req[1]) \in DOMAIN cache
  /\ now >= cache[key_of(req[1])].expires
  /\ Len(rows) = 2
  /\ cache[key_of(req[1])].value.id = rows[1].id
  /\ \E o \in order[1] : o.id = rows[2].id /\ o.id # rows[1].id

\* C16. Only create_order touches the cache: a get, a list and a delete
\* leave it as it is, whatever it holds; no step takes an entry away, and an
\* entry changes only by the cache write of a create under its key.
C16_CacheOnlyOnCreate ==
  [][/\ DOMAIN cache \subseteq DOMAIN cache'
     /\ cache' # cache
          => \E p \in Procs :
               /\ pc[p] = "cache_set"
               /\ pc'[p] = "idle"
               /\ \A k \in DOMAIN cache : k # key_of(req[p]) => cache'[k] = cache[k]
     /\ LET r == last'.req
            p == last'.proc
        IN  /\ (r.op = "get" /\ GetOrder(p, r.table_id, r.order_id, "ok"))
                 => /\ cache' = cache
                    /\ last'.status = "OK" <=> Matching(rows, r.table_id, r.order_id) # {}
            /\ (r.op = "list" /\ GetOrders(p, r.table_id, r.from_id, r.limit, "ok"))
                 => cache' = cache
            /\ (r.op = "delete" /\ DeleteOrder(p, r.table_id, r.order_id, "ok"))
                 => /\ cache' = cache
                    /\ last'.status = "NO_CONTENT"
                         <=> Matching(rows, r.table_id, r.order_id) # {}
    ]_vars

\* C16 witness: a delete took the order that a cache entry holds, and the
\* entry is there as before.
C16_Witness ==
  /\ last.req.op = "delete"
  /\ last.status = "NO_CONTENT"
  /\ \E k \in DOMAIN cache :
       /\ cache[k].value.id = last.req.order_id
       /\ now < cache[k].expires

\* C17, as claimed: a list call with a from_id or a limit, each any u32, is
\* answered with the rows from the from_id given on and capped at the limit
\* given: nothing from a from_id above every id, every row under a limit
\* above the number of rows.
C17_CursorAndLimitVerbatim ==
  [][LET r == last'.req
     IN  ( /\ r.op = "list"
           /\ r.from_id \cup r.limit # {}
           /\ GetOrders(last'.proc, r.table_id, r.from_id, r.limit, "ok") )
         => /\ last'.status = "OK"
            /\ last'.body = PromisedPage(rows, r.table_id, r.from_id, r.limit)
    ]_vars

\* C18. Row lifecycle: no step takes a row away; a step leaves a row as it
\* is or, being the delete of that row's (table_id, id), turns its deleted
\* from false to true with id, table_id, dish_id and ready_time as they
\* were; deleted never goes back to false, and a row inserted is not deleted.
C18_RowLifecycle ==
  [][/\ Len(rows') >= Len(rows)
     /\ \A i \in 1..Len(rows) :
          \/ rows'[i] = rows[i]
          \/ /\ ~rows[i].deleted
             /\ rows'[i] = [rows[i] EXCEPT !.deleted = TRUE]
             /\ last'.req.op = "delete"
             /\ last'.req.table_id = rows[i].table_id
             /\ last'.req.order_id = rows[i].id
     /\ \A j \in (Len(rows) + 1)..Len(rows') : ~rows'[j].deleted
    ]_vars

\* C18 witness: after the first order was deleted a create added a second
\* one; the first is there, deleted, with the dish it was created with, which
\* is not the dish of the second.
C18_Witness ==
  /\ Len(rows) = 2
  /\ rows[1].deleted
  /\ ~rows[2].deleted
  /\ rows[1].dish_id # rows[2].dish_id
  /\ last.req.op = "create"
  /\ last.status = "CREATED"
  /\ last.body[1].id = rows[2].id

\* The failures of the store a create can meet, and what each is answered with.
StoreFailures == {"db_conn", "db_query", "db_query_seq"}
StoreError(f) == IF f = "db_conn" THEN "DatabaseConnection" ELSE "DatabaseQuery"

\* The last response is the store's error to a create with a token.
StoreFailedCreate ==
  /\ last.req.op = "create"
  /\ last.req.header # {}
  /\ last.status \in {"DatabaseConnection", "DatabaseQuery"}

\* What a failure of the store in a create with a token comes to: the
\* store's error at once, no row added, the cache as it was.
StoreFailureSurfaced ==
  \A p \in Procs : \A f \in StoreFailures :
    (pc[p] = "add_order" /\ AddOrder(p, f))
      => /\ pc'[p] = "idle"
         /\ last'.req = req[p]
         /\ last'.status = StoreError(f)
         /\ last'.body = << >>
         /\ rows' = rows
         /\ cache' = cache

\* The request the store failed is sent again by p and meets no failure.
RetryBy(p) ==
  /\ StoreFailedCreate
  /\ pc[p] = "idle"
  /\ last.req \in {req'[p], last'.req}
  /\ CreateOrder(p, last.req.table_id, last.req.dish_id, last.req.header, "ok")

\* C19, as claimed: a store failure in a create with a token is answered at
\* once with the store's error, no row added and no entry written; the same
\* request sent again is a cache miss that goes to the insert again.
C19_RetryAlwaysMisses ==
  [][/\ StoreFailureSurfaced
     /\ \A p \in Procs : RetryBy(p) => (pc'[p] = "add_order" /\ rows' = rows)
    ]_vars

\* After the store failed a create with a token whose lookup had not failed,
\* no live entry is under its key.
C19_NoEntryAfterStoreFailure ==
  (StoreFailedCreate /\ "redis_get" \notin last.faults)
    => redis_get(cache, now, key_of(last.req), FALSE) = {}

\* C19, amended: a store failure in a create with a token is answered at
\* once with the store's error, no row added and the cache as it was.  The
\* same request sent again is a miss that goes to the insert again when the
\* lookup of the failed request had not itself failed; when it had failed,
\* over a live entry of an earlier create, the request sent again is a hit
\* answered with that entry, and nothing is inserted.
C19_StoreFailureSurfaced ==
  /\ []C19_NoEntryAfterStoreFailure
  /\ [][/\ StoreFailureSurfaced
        /\ \A p \in Procs :
             RetryBy(p)
               => IF redis_get(cache, now, key_of(last.req), FALSE) = {}
                    THEN pc'[p] = "add_order" /\ rows' = rows
                    ELSE /\ "redis_get" \in last.faults
                         /\ pc'[p] = "idle"
                         /\ last'.lookup = "hit"
                         /\ last'.body = <<cache[key_of(last.req)].value>>
                         /\ rows' = rows
        /\ \A p \in Procs :
             (StoreFailedCreate /\ pc[p] = "add_order" /\ req[p] = last.req /\ AddOrder(p, "ok"))
               => /\ Len(rows') = Len(rows) + 1
                  /\ pc'[p] = "cache_set"
       ]_vars

\* C19 witness: the insert of a create with a token failed, its lookup
\* having missed, with no row in the store; the same request, sent again,
\* has missed the cache and inserted its row, the first of the store.
C19_Witness ==
  /\ StoreFailedCreate
  /\ "redis_get" \notin last.faults
  /\ pc[1] = "cache_set"
  /\ req[1] = last.req
  /\ faults[1] = {}
  /\ Len(rows) = 1
  /\ key_of(last.req) \notin DOMAIN cache

\* C20, as claimed: in every state each unexpired cache entry holds an order
\* whose id is the id of a row of the store with the table_id and dish_id
\* of the entry's key and the same ready_time.
C20_CacheEqualsRow ==
  \A k \in DOMAIN cache :
    now < cache[k].expires
      => \E i \in 1..Len(rows) :
           /\ rows[i].id = cache[k].value.id
           /\ rows[i].dish_id = cache[k].value.dish_id
           /\ rows[i].ready_time = cache[k].value.ready_time * TicksPerSec
           /\ \E h \in Tokens : k = cache_key(rows[i].table_id, rows[i].dish_id, h)

\* C20, amended: in every state, the create race included, each unexpired
\* cache entry holds an order whose id is the id of a row of the store; the
\* entry's key is the key of that row's table_id and dish_id under some
\* token, its dish_id is the row's, and its ready_time is the row's cut to
\* whole seconds, as an Order goes out.
C20_CacheHoldsInsertedOrders ==
  \A k \in DOMAIN cache :
    now < cache[k].expires
      => \E i \in 1..Len(rows) :
           /\ rows[i].id = cache[k].value.id
           /\ rows[i].dish_id = cache[k].value.dish_id
           /\ rows[i].ready_time \div TicksPerSec = cache[k].value.ready_time
           /\ \E h \in Tokens : k = cache_key(rows[i].table_id, rows[i].dish_id, h)

\* C20 witness: in the race, the entry under a key holds the order of one
\* create, deleted since, while another create under the key has inserted
\* its row and has not written yet.
C20_Witness ==
  \E k \in DOMAIN cache : \E p \in Procs :
    /\ now < cache[k].expires
    /\ pc[p] = "cache_set"
    /\ key_of(req[p]) = k
    /\ \A o \in order[p] : o.id # cache[k].value.id
    /\ \E i \in 1..Len(rows) : rows[i].id = cache[k].value.id /\ rows[i].deleted

\* C21. A delete does not take the idempotency entry with it: when the live
\* entry under the key of (table_id, dish_id, token) holds the order of a
\* row of that table that a delete has taken, a create with that table_id,
\* dish_id and token that meets no failure is a hit: it is answered CREATED
\* with the entry's order and inserts nothing, and the order it is answered
\* with is NotFound for get_order and in no list of the table.
C21_DeletedOrderStillCached ==
  [][\A p \in Procs : \A r \in {req'[p], last'.req} :
       ( /\ pc[p] = "idle"
         /\ r.op = "create"
         /\ r.header # {}
         /\ key_of(r) \in DOMAIN cache
         /\ now < cache[key_of(r)].expires
         /\ \E i \in 1..Len(rows) :
              /\ rows[i].id = cache[key_of(r)].value.id
              /\ rows[i].table_id = r.table_id
              /\ rows[i].deleted
         /\ CreateOrder(p, r.table_id, r.dish_id, r.header, "ok") )
       => LET x == cache[key_of(r)].value.id
          IN  /\ pc'[p] = "idle"
              /\ last'.status = "CREATED"
              /\ last'.lookup = "hit"
              /\ last'.body = <<cache[key_of(r)].value>>
              /\ last'.body[1].id = x
              /\ rows' = rows
              /\ seq' = seq
              /\ get_order(rows', r.table_id, x) = {}
              /\ Unlisted(rows', r.table_id, x)
    ]_vars

\* C21 witness: a create was answered from the cache with an order whose
\* row is deleted, the only row of the store.
C21_Witness ==
  /\ last.req.op = "create"
  /\ last.lookup = "hit"
  /\ last.status = "CREATED"
  /\ Len(rows) = 1
  /\ rows[1].id = last.body[1].id
  /\ rows[1].table_id = last.req.table_id
  /\ rows[1].deleted

=============================================================================
